---------------------------- MODULE Spec2Model ----------------------------
(***************************************************************************)
(* A model of allen_oephys_to_nwb: the AllenOephysNWBConverter class       *)
(* (metadata resolution in __init__, the add_* attach steps, the lazy      *)
(* tiff_iterator generator) and the module-level convert2nwb.              *)
(*                                                                         *)
(* Numbers.  Sample periods are integers (a number of clock ticks); the    *)
(* rate 1/p is the rational [num, den], with den = 0 standing for the inf  *)
(* numpy returns for 1/0.  Spike times are integers in the same ticks.     *)
(* An image-stack file is identified by its position in paths_tiff, and    *)
(* paths_tiff[i] is the number of images the file holds.                   *)
(***************************************************************************)
EXTENDS Integers, Sequences, FiniteSets, TLC

VARIABLES
    f,            \* the processed h5 file: the named datasets the code reads
    paths_tiff,   \* source_paths['paths_tiff']: frame count of each file
    caller,       \* the metadata argument of __init__
    phase,        \* "new" | "constructed" | "failed" (the constructor raised)
    metadata,     \* self.metadata, the resolved metadata
    nwbfile,      \* self.nwbfile, the output container
    handles,      \* the file handles that are open
    gens,         \* the tiff_iterator generators created so far, in order
    raised,       \* the exception the last call raised, "none" if it returned
    calls         \* how often each method was called, what it attempted and
                  \* whether the last call computed a rate (rated)

vars == <<f, paths_tiff, caller, phase, metadata, nwbfile, handles, gens,
          raised, calls>>

---------------------------------------------------------------------------
(* Bounds of the model. *)

MaxFiles == 3        \* image-stack files in paths_tiff
MaxFrames == 2       \* images in one file of a stack that is iterated
MaxLinkFrames == 4   \* images in one file of a stack that is linked
MaxSpk == 5          \* samples of the spike indicator array
MaxDim == 3          \* lines per frame, pixels per line
MaxPixels == 2       \* entries of pixel_list
MaxPeriod == 2       \* largest sample period, in ticks
MaxCalls == 2        \* calls of one method on one converter
MaxSpentNext == 1    \* next() calls on a spent generator

---------------------------------------------------------------------------
(* Values. *)

EmptyMap == [k \in {} |-> ""]

\* dict.update(d): every key of d is written, the other keys of m are kept.
Update(m, d) ==
    [k \in DOMAIN m \cup DOMAIN d |-> IF k \in DOMAIN d THEN d[k] ELSE m[k]]

Digit(d) ==
    CASE d = 0 -> "0" [] d = 1 -> "1" [] d = 2 -> "2" [] d = 3 -> "3"
      [] d = 4 -> "4" [] d = 5 -> "5" [] d = 6 -> "6" [] d = 7 -> "7"
      [] d = 8 -> "8" [] d = 9 -> "9"

RECURSIVE Str(_)
\* str(int(x)) of a non-negative number: its decimal digits.
Str(n) == IF n < 10 THEN Digit(n) ELSE Str(n \div 10) \o Digit(n % 10)

\* 1 / p as numpy computes it on the value read from the file: inf and no
\* exception for p = 0, a negative rate for a negative period.
Reciprocal(p) ==
    IF p < 0 THEN [num |-> -1, den |-> -p] ELSE [num |-> 1, den |-> p]

\* The subject registry: subject id -> fixed biological metadata.
subjects_info ==
    [id \in {"7", "42"} |->
        IF id = "7"
        THEN [line |-> "Cux2", age |-> "P60", anesthesia |-> "isoflurane",
              indicator |-> "GCaMP6f"]
        ELSE [line |-> "Rorb", age |-> "P90", anesthesia |-> "urethane",
              indicator |-> "GCaMP6s"]]

---------------------------------------------------------------------------
(* The inputs. *)

\* The processed file with nothing recorded; each specification varies the
\* datasets its operations read.
DefaultFile ==
    [tid |-> 3, aid |-> 42, dte |-> 1, dto |-> 2, spk |-> <<>>,
     pixel_list |-> <<>>, linesPerFrame |-> 1, pixelsPerLine |-> 1,
     depth |-> FALSE]

NoCaller == [given |-> FALSE, map |-> EmptyMap]

\* The caller's NWBFile and Subject sections: absent, or present with these
\* fields.
NWBFileChoices ==
    { [present |-> FALSE, fields |-> EmptyMap],
      [present |-> TRUE, fields |-> EmptyMap],
      [present |-> TRUE, fields |-> [experimenter |-> "me"]],
      [present |-> TRUE, fields |-> [identifier |-> "X"]],
      [present |-> TRUE, fields |-> [session_description |-> "my session"]],
      [present |-> TRUE, fields |-> [session_start_time |-> "2020-01-01"]],
      [present |-> TRUE, fields |-> [pharmacology |-> "none"]] }

SubjectChoices ==
    { [present |-> FALSE, fields |-> EmptyMap],
      [present |-> TRUE, fields |-> EmptyMap],
      [present |-> TRUE, fields |-> [subject_id |-> "X"]],
      [present |-> TRUE, fields |-> [species |-> "mouse"]],
      [present |-> TRUE,
       fields |-> [subject_id |-> "X", genotype |-> "wt", age |-> "P1"]] }

Section(name, c) ==
    IF c.present THEN [s \in {name} |-> c.fields] ELSE EmptyMap

CallerMappings ==
    { Update(Section("NWBFile", n), Section("Subject", s)) :
        n \in NWBFileChoices, s \in SubjectChoices }

Callers == {NoCaller} \cup { [given |-> TRUE, map |-> m] : m \in CallerMappings }

\* The Ophys section a caller passes for the imaging steps.
OphysCaller(plane) ==
    [given |-> TRUE,
     map |-> [NWBFile |-> EmptyMap,
              Ophys |-> [ImagingPlane_name |-> plane]]]

\* The Ecephys section: with it, the container the base class builds holds
\* an electrode group.
WithEcephys(c) ==
    [c EXCEPT !.map = Update(@, [Ecephys |-> [ElectrodeGroup |-> "group"]])]

EmptyContainer ==
    [acquisition |-> <<>>, imaging_planes |-> {}, processing |-> {},
     rois |-> <<>>, roi_series |-> <<>>, units |-> <<>>, electrodes |-> 0,
     electrode_groups |-> 0]

\* Line 53: the container super().__init__ builds from the resolved
\* metadata, with one electrode group when there is an Ecephys section.
NewContainer(meta) ==
    [EmptyContainer EXCEPT
        !.electrode_groups = IF "Ecephys" \in DOMAIN meta THEN 1 ELSE 0]

NoCalls ==
    [ecephys |-> 0, processed |-> 0, acquisition |-> 0, spiking |-> 0,
     convert |-> 0, create_plane |-> 0, get_plane |-> 0, last |-> "",
     rated |-> FALSE]

---------------------------------------------------------------------------
(* File handles. *)

\* A handle on file id, opened by owner: the number of the call that opened
\* it or, for a TIFF decoder, of the generator that did.
Handle(kind, id, owner) == [kind |-> kind, id |-> id, owner |-> owner]

\* `with h5py.File(path_processed, 'r') as f`: the handle is released when
\* the block is left, by return or by exception.
WithH5(hs) == (hs \cup {Handle("h5with", 0, 0)}) \ {Handle("h5with", 0, 0)}

---------------------------------------------------------------------------
(* __init__: metadata resolution. *)

meta_nwbfile(tid_s, info) ==
    [session_description |-> "session description",
     identifier |-> tid_s,
     session_start_time |-> "now",
     pharmacology |-> info.anesthesia]

meta_subject(aid_s, info) ==
    [subject_id |-> aid_s, genotype |-> info.line, age |-> info.age]

\* Lines 36-40: the NWBFile section.  The result is the metadata mapping, or
\* the KeyError of metadata['NWBFile'] on a mapping without that section.
MergeNWBFile(c, m_nwb) ==
    IF ~c.given
    THEN [ok |-> TRUE, map |-> [NWBFile |-> m_nwb]]
    ELSE IF "NWBFile" \in DOMAIN c.map
         THEN [ok |-> TRUE,
               map |-> [c.map EXCEPT !["NWBFile"] = Update(@, m_nwb)]]
         ELSE [ok |-> FALSE, map |-> c.map]

\* Lines 48-51: the Subject section.
MergeSubject(m, m_subj) ==
    IF "Subject" \in DOMAIN m
    THEN [m EXCEPT !["Subject"] = Update(@, m_subj)]
    ELSE Update(m, [Subject |-> m_subj])

Construct ==
    /\ phase = "new"
    /\ handles' = WithH5(handles)
    /\ LET session_identifier == Str(f.tid)
           animal_id == Str(f.aid)
       IN IF animal_id \notin DOMAIN subjects_info
          THEN /\ phase' = "failed"
               /\ raised' = "KeyError"
               /\ UNCHANGED <<metadata, nwbfile>>
          ELSE LET subject_info == subjects_info[animal_id]
                   merged == MergeNWBFile(caller,
                                 meta_nwbfile(session_identifier, subject_info))
               IN IF ~merged.ok
                  THEN /\ phase' = "failed"
                       /\ raised' = "KeyError"
                       /\ UNCHANGED <<metadata, nwbfile>>
                  ELSE /\ metadata' = MergeSubject(merged.map,
                                          meta_subject(animal_id, subject_info))
                       /\ nwbfile' = NewContainer(metadata')
                       /\ phase' = "constructed"
                       /\ raised' = "none"
    /\ UNCHANGED <<f, paths_tiff, caller, gens, calls>>

\* The state a converter is in once __init__ returned for caller mapping c.
Constructed(file, c) ==
    LET info == subjects_info[Str(file.aid)]
        merged == MergeNWBFile(c, meta_nwbfile(Str(file.tid), info))
    IN MergeSubject(merged.map, meta_subject(Str(file.aid), info))

---------------------------------------------------------------------------
(* The output container (pynwb's NWBFile), as far as the converter uses it. *)

Names(series) == { series[i].name : i \in 1..Len(series) }

\* data is the number of the tiff_iterator the series wraps, 0 for none.
Series(name, kind, rate, format, external, starting_frame, data) ==
    [name |-> name, kind |-> kind, rate |-> rate, format |-> format,
     external |-> external, starting_frame |-> starting_frame, data |-> data]

\* nwbfile.add_acquisition(series): ValueError on a name already present.
RECURSIVE AddAcquisitions(_, _)
AddAcquisitions(nwb, todo) ==
    IF todo = <<>>
    THEN [nwb |-> nwb, raised |-> "none"]
    ELSE IF Head(todo).name \in Names(nwb.acquisition)
         THEN [nwb |-> nwb, raised |-> "ValueError"]
         ELSE AddAcquisitions(
                  [nwb EXCEPT !.acquisition = Append(@, Head(todo))],
                  Tail(todo))

---------------------------------------------------------------------------
(* add_ecephys_acquisition *)

\* No value was assigned to trace_name yet.
Unbound == "unbound"

\* Lines 79-84: two independent ifs; an element that is neither 'raw' nor
\* 'filtered' leaves trace_name as the element before left it.
trace_name(tr, prev) ==
    LET after_raw == IF tr = "raw" THEN "raw_membrane_voltage" ELSE prev
    IN IF tr = "filtered" THEN "filtered_membrane_voltage" ELSE after_raw

\* "other" is any element that is neither 'raw' nor 'filtered'.
Traces ==
    { <<"raw", "filtered">>, <<"raw">>, <<"filtered">>, <<"other">>,
      <<"raw", "other">> }

\* Line 76.
ecephys_rate(file) == Reciprocal(file.dte)

\* Lines 78-92: the loop over trace, from element i on, with trace_name as
\* the elements before left it.  Reading an unassigned trace_name at line
\* 86 raises UnboundLocalError; add_acquisition refuses a name it holds.
RECURSIVE ElectricalSeriesLoop(_, _, _, _, _)
ElectricalSeriesLoop(nwb, trace, i, prev, rate) ==
    IF i > Len(trace)
    THEN [nwb |-> nwb, raised |-> "none"]
    ELSE LET name == trace_name(trace[i], prev)
             r == AddAcquisitions(nwb,
                      << Series(name, "ElectricalSeries", rate, "none",
                                <<>>, <<>>, 0) >>)
         IN IF name = Unbound
            THEN [nwb |-> nwb, raised |-> "UnboundLocalError"]
            ELSE IF r.raised # "none"
                 THEN r
                 ELSE ElectricalSeriesLoop(r.nwb, trace, i + 1, name, rate)

\* Lines 55-65: the first electrode group of the container, IndexError when
\* it has none; line 58 then adds one electrode to it.
create_electrodes_ecephys(nwb) ==
    IF nwb.electrode_groups = 0
    THEN [nwb |-> nwb, raised |-> "IndexError"]
    ELSE [nwb |-> [nwb EXCEPT !.electrodes = @ + 1], raised |-> "none"]

add_ecephys_acquisition(trace) ==
    /\ phase = "constructed"
    /\ calls.ecephys < MaxCalls
    /\ LET ce == create_electrodes_ecephys(nwbfile)
           r == ElectricalSeriesLoop(ce.nwb, trace, 1, Unbound,
                                     ecephys_rate(f))
       IN IF ce.raised # "none"
          THEN /\ nwbfile' = ce.nwb
               /\ raised' = ce.raised
               /\ handles' = handles
               /\ calls' = [calls EXCEPT !.ecephys = @ + 1, !.last = "ecephys",
                                         !.rated = FALSE]
          ELSE /\ nwbfile' = r.nwb
               /\ raised' = r.raised
               /\ handles' = WithH5(handles)
               /\ calls' = [calls EXCEPT !.ecephys = @ + 1, !.last = "ecephys",
                                         !.rated = TRUE]
    /\ UNCHANGED <<f, paths_tiff, caller, phase, metadata, gens>>

AddEcephysAcquisition == \E trace \in Traces : add_ecephys_acquisition(trace)

---------------------------------------------------------------------------
(* _get_imaging_plane *)

PlaneNamed(nwb, name) == { p \in nwb.imaging_planes : p.name = name }

\* Line 114: the name the plane is created under.
CreatedPlaneName(meta_name) == "imaging_plane"

\* Line 108.
imaging_rate(file) == Reciprocal(file.dto)

\* The result of one call: the container afterwards, the exception raised,
\* whether the lookup found a plane and whether a creation was attempted.
get_imaging_plane(nwb) ==
    IF "Ophys" \notin DOMAIN metadata
    THEN [nwb |-> nwb, raised |-> "KeyError", found |-> FALSE, attempts |-> 0]
    ELSE LET meta_name == metadata["Ophys"]["ImagingPlane_name"]
             new_name == CreatedPlaneName(meta_name)
             plane == [name |-> new_name,
                       description |-> IF f.depth THEN "high zoom" ELSE "low zoom",
                       indicator |-> subjects_info[Str(f.aid)].indicator,
                       imaging_rate |-> imaging_rate(f)]
         IN IF PlaneNamed(nwb, meta_name) # {}
            THEN [nwb |-> nwb, raised |-> "none", found |-> TRUE, attempts |-> 0]
            ELSE IF PlaneNamed(nwb, new_name) # {}
                 THEN [nwb |-> nwb, raised |-> "ValueError", found |-> FALSE,
                       attempts |-> 1]
                 ELSE [nwb |-> [nwb EXCEPT !.imaging_planes = @ \cup {plane}],
                       raised |-> "none", found |-> FALSE, attempts |-> 1]

CountPlaneCall(c, gp) ==
    [c EXCEPT !.get_plane = @ + 1, !.create_plane = @ + gp.attempts]

---------------------------------------------------------------------------
(* add_ophys_processed *)

\* Lines 152-154: one mask entry [col, row, 1] of pixel index pi.
MaskRow(pi, n_rows) == pi \div n_rows
MaskCol(pi, n_rows) == pi % n_rows

\* Lines 150-154.  np.squeeze turns a pixel_list of exactly one entry into
\* a 0-d array, and iterating over it at line 151 raises TypeError.
PixelMask(pixel_list, n_rows) ==
    IF Len(pixel_list) = 1
    THEN [raised |-> "TypeError", mask |-> <<>>]
    ELSE [raised |-> "none",
          mask |-> [i \in 1..Len(pixel_list) |->
                       [col |-> MaskCol(pixel_list[i], n_rows),
                        row |-> MaskRow(pixel_list[i], n_rows),
                        weight |-> 1]]]

add_ophys_processed ==
    /\ phase = "constructed"
    /\ calls.processed < MaxCalls
    /\ handles' = WithH5(handles)
    /\ LET gp == get_imaging_plane(nwbfile)
           n_rows == f.linesPerFrame
           n_cols == f.pixelsPerLine
           rate == Reciprocal(f.dto)
           withModule == [gp.nwb EXCEPT !.processing = @ \cup {"ophys"}]
           pm == PixelMask(f.pixel_list, n_rows)
           withRoi == [withModule EXCEPT !.rois = Append(@, pm.mask)]
           reached == /\ gp.raised = "none"
                      /\ "ophys" \notin gp.nwb.processing
                      /\ pm.raised = "none"
       IN /\ calls' = [CountPlaneCall(calls, gp) EXCEPT
                          !.processed = @ + 1, !.last = "processed",
                          !.rated = (gp.attempts = 1) \/ reached]
          /\ IF gp.raised # "none"
             THEN nwbfile' = gp.nwb /\ raised' = gp.raised
             ELSE IF "ophys" \in gp.nwb.processing
                  THEN nwbfile' = gp.nwb /\ raised' = "ValueError"
                  ELSE IF pm.raised # "none"
                       THEN nwbfile' = withModule /\ raised' = pm.raised
                       ELSE /\ nwbfile' = [withRoi EXCEPT !.roi_series =
                                   Append(@, [name |-> "roi_response_series",
                                              rate |-> rate])]
                            /\ raised' = "none"
    /\ UNCHANGED <<f, paths_tiff, caller, phase, metadata, gens>>

---------------------------------------------------------------------------
(* add_ophys_acquisition *)

\* The bug of probing every file, the last one included.
ProbedFilesAll(paths) == paths

\* Line 196: the files whose frame count is probed, paths_tiff[0:-1].
ProbedFiles(paths) == SubSeq(paths, 1, Len(paths) - 1)

\* Lines 195-198: the loop that builds starting_frames; i counts from 1
\* here and from 0 in the code.
RECURSIVE StartingFramesLoop(_, _, _)
StartingFramesLoop(probed, i, starting_frames) ==
    IF i > Len(probed)
    THEN starting_frames
    ELSE StartingFramesLoop(probed, i + 1,
             Append(starting_frames, probed[i] + starting_frames[i]))

StartingFrames(paths) == StartingFramesLoop(ProbedFiles(paths), 1, <<0>>)

\* Line 197: pil.Image.open(tf) of the first n probed files by call number
\* call; the code never closes the image it opened.
ProbeHandles(n, call) == { Handle("pil", i, call) : i \in 1..n }

\* Lines 195-198: the outcomes of the probe loop.  Every probed file is
\* opened (failed = 0), or pil.Image.open raises on probed file number
\* failed, after the files before it were opened.
ProbeOutcomes(paths) ==
    { [failed |-> 0, opened |-> Len(ProbedFiles(paths))] }
    \cup { [failed |-> i, opened |-> i - 1] : i \in 1..Len(ProbedFiles(paths)) }

\* A tiff_iterator that was created and has not run yet; out is the images
\* it has yielded so far, in order.
NewGen ==
    [pc |-> "for", file |-> 1, k |-> 0, end |-> "", spent |-> 0, out |-> <<>>]

\* Line 211, DataChunkIterator(data=tiff_iterator(...)): the constructor
\* reads the first chunk, which runs the generator from file i of its for
\* loop to its first yield.  The outcomes: no file is left (the generator
\* returns), file i cannot be opened, its first image is yielded or cannot
\* be decoded, or it holds no image, is closed, and the run goes on.  open
\* is the files the generator holds open afterwards.
RECURSIVE FirstChunk(_, _)
FirstChunk(paths, i) ==
    IF i > Len(paths)
    THEN { [gen |-> [NewGen EXCEPT !.pc = "done", !.file = i,
                                   !.end = "exhausted"],
            open |-> {}, raised |-> "none"] }
    ELSE { [gen |-> [NewGen EXCEPT !.pc = "done", !.file = i, !.end = "error"],
            open |-> {}, raised |-> "IOError"] }
         \cup
         IF paths[i] >= 1
         THEN { [gen |-> [NewGen EXCEPT !.pc = "images", !.file = i, !.k = 1,
                                        !.out = << <<i, 1>> >>],
                 open |-> {i}, raised |-> "none"],
                [gen |-> [NewGen EXCEPT !.pc = "done", !.file = i,
                                        !.end = "error"],
                 open |-> {i}, raised |-> "IOError"] }
         ELSE FirstChunk(paths, i + 1)

\* A generator that is dropped where it stands, when the call that created
\* it fails after line 211.
Dropped(g) ==
    IF g.pc = "done" THEN g ELSE [g EXCEPT !.pc = "done", !.end = "abandoned"]

\* Lines 194-208 and 220, for one outcome po of the probe loop.
add_ophys_acquisition_link(gp, rate, po) ==
    LET series == Series("raw_ophys", "TwoPhotonSeries", rate, "tiff",
                         paths_tiff, StartingFrames(paths_tiff), 0)
        r == AddAcquisitions(gp.nwb, <<series>>)
    IN /\ handles' = WithH5(handles)
                         \cup ProbeHandles(po.opened, calls.acquisition + 1)
       /\ IF po.failed # 0
          THEN /\ nwbfile' = gp.nwb
               /\ raised' = "IOError"
          ELSE /\ nwbfile' = r.nwb
               /\ raised' = r.raised
       /\ UNCHANGED gens

\* Lines 210-220, for one outcome fc of the first chunk: the generator
\* created by this call is number Len(gens) + 1.
add_ophys_acquisition_embed(gp, rate, fc) ==
    LET n == Len(gens) + 1
        series == Series("raw_ophys", "TwoPhotonSeries", rate, "none",
                         <<>>, <<>>, n)
        r == AddAcquisitions(gp.nwb, <<series>>)
    IN /\ handles' = WithH5(handles)
                         \cup { Handle("tiff", i, n) : i \in fc.open }
       /\ IF fc.raised # "none"
          THEN /\ nwbfile' = gp.nwb
               /\ raised' = fc.raised
               /\ gens' = Append(gens, fc.gen)
          ELSE /\ nwbfile' = r.nwb
               /\ raised' = r.raised
               /\ gens' = Append(gens, IF r.raised = "none" THEN fc.gen
                                       ELSE Dropped(fc.gen))

add_ophys_acquisition(link) ==
    /\ phase = "constructed"
    /\ calls.acquisition < MaxCalls
    /\ LET rate == Reciprocal(f.dto)
           gp == get_imaging_plane(nwbfile)
       IN /\ calls' = [CountPlaneCall(calls, gp) EXCEPT
                          !.acquisition = @ + 1, !.last = "acquisition",
                          !.rated = TRUE]
          /\ IF gp.raised # "none"
             THEN /\ nwbfile' = gp.nwb
                  /\ raised' = gp.raised
                  /\ handles' = WithH5(handles)
                  /\ UNCHANGED gens
             ELSE IF link
                  THEN \E po \in ProbeOutcomes(paths_tiff) :
                           add_ophys_acquisition_link(gp, rate, po)
                  ELSE \E fc \in FirstChunk(paths_tiff, 1) :
                           add_ophys_acquisition_embed(gp, rate, fc)
    /\ UNCHANGED <<f, paths_tiff, caller, phase, metadata>>

AddOphysAcquisition == \E link \in BOOLEAN : add_ophys_acquisition(link)

---------------------------------------------------------------------------
(* tiff_iterator: the generator of lines 182-187 after the call that       *)
(* created it, one action per step between two of its observable points.   *)
(* The consumer (the chunked writer) drives the generator of a series that *)
(* was attached with next() and may stop asking at any yield; the          *)
(* generator of a call that failed is referenced by nothing and never runs *)
(* again.                                                                  *)

\* The generators the container references: the data of an attached series.
AttachedGens ==
    { nwbfile.acquisition[i].data : i \in 1..Len(nwbfile.acquisition) } \ {0}

\* Line 184, TIFF.open(tf) of the next file of the for loop.
TiffOpen ==
    \E g \in AttachedGens :
        /\ gens[g].pc = "for"
        /\ gens[g].file <= Len(paths_tiff)
        /\ handles' = handles \cup {Handle("tiff", gens[g].file, g)}
        /\ gens' = [gens EXCEPT ![g].pc = "images", ![g].k = 0]
        /\ raised' = "none"
        /\ UNCHANGED <<f, paths_tiff, caller, phase, metadata, nwbfile, calls>>

\* Line 184 on a file that cannot be opened: the exception leaves the
\* generator, which is finished from then on.
TiffOpenError ==
    \E g \in AttachedGens :
        /\ gens[g].pc = "for"
        /\ gens[g].file <= Len(paths_tiff)
        /\ gens' = [gens EXCEPT ![g].pc = "done", ![g].end = "error"]
        /\ raised' = "IOError"
        /\ UNCHANGED <<f, paths_tiff, caller, phase, metadata, nwbfile,
                       handles, calls>>

\* Lines 185-186: the next image of the open file is decoded and yielded.
TiffYield ==
    \E g \in AttachedGens :
        /\ gens[g].pc = "images"
        /\ gens[g].k < paths_tiff[gens[g].file]
        /\ gens' = [gens EXCEPT ![g].k = @ + 1,
                        ![g].out = Append(@, <<gens[g].file, gens[g].k + 1>>)]
        /\ raised' = "none"
        /\ UNCHANGED <<f, paths_tiff, caller, phase, metadata, nwbfile,
                       handles, calls>>

\* Line 185 when decoding the next image fails: the exception leaves the
\* generator past line 187.
TiffReadError ==
    \E g \in AttachedGens :
        /\ gens[g].pc = "images"
        /\ gens[g].k < paths_tiff[gens[g].file]
        /\ gens' = [gens EXCEPT ![g].pc = "done", ![g].end = "error"]
        /\ raised' = "IOError"
        /\ UNCHANGED <<f, paths_tiff, caller, phase, metadata, nwbfile,
                       handles, calls>>

\* The bug of advancing to the next file without tif.close().
TiffCloseKeepsOpen ==
    \E g \in AttachedGens :
        /\ gens[g].pc = "images"
        /\ gens[g].k = paths_tiff[gens[g].file]
        /\ gens' = [gens EXCEPT ![g].pc = "for", ![g].file = @ + 1, ![g].k = 0]
        /\ UNCHANGED <<f, paths_tiff, caller, phase, metadata, nwbfile,
                       handles, raised, calls>>

\* Line 187: the images of the file are exhausted, tif.close().
TiffClose ==
    \E g \in AttachedGens :
        /\ gens[g].pc = "images"
        /\ gens[g].k = paths_tiff[gens[g].file]
        /\ handles' = handles \ {Handle("tiff", gens[g].file, g)}
        /\ gens' = [gens EXCEPT ![g].pc = "for", ![g].file = @ + 1, ![g].k = 0]
        /\ UNCHANGED <<f, paths_tiff, caller, phase, metadata, nwbfile,
                       raised, calls>>

\* Line 183 with no file left: the generator returns (StopIteration).
TiffExhausted ==
    \E g \in AttachedGens :
        /\ gens[g].pc = "for"
        /\ gens[g].file > Len(paths_tiff)
        /\ gens' = [gens EXCEPT ![g].pc = "done", ![g].end = "exhausted"]
        /\ UNCHANGED <<f, paths_tiff, caller, phase, metadata, nwbfile,
                       handles, raised, calls>>

\* Generator g is suspended at the yield of line 186.
Suspended(g) == g.pc = "images" /\ g.k >= 1

\* The consumer stops iterating and drops the generator: GeneratorExit is
\* raised at the yield, and nothing of the generator runs after it.
TiffAbandon ==
    \E g \in AttachedGens :
        /\ Suspended(gens[g])
        /\ gens' = [gens EXCEPT ![g].pc = "done", ![g].end = "abandoned"]
        /\ UNCHANGED <<f, paths_tiff, caller, phase, metadata, nwbfile,
                       handles, raised, calls>>

\* The bug of a restartable sequence: next() on a finished generator
\* starts over at the first file.
TiffSpentRestarts ==
    \E g \in AttachedGens :
        /\ gens[g].pc = "done"
        /\ gens[g].spent < MaxSpentNext
        /\ gens' = [gens EXCEPT ![g].pc = "for", ![g].file = 1, ![g].k = 0,
                                ![g].end = "", ![g].spent = @ + 1]
        /\ UNCHANGED <<f, paths_tiff, caller, phase, metadata, nwbfile,
                       handles, raised, calls>>

\* next() on a finished generator: StopIteration, nothing is yielded.
TiffSpentNext ==
    \E g \in AttachedGens :
        /\ gens[g].pc = "done"
        /\ gens[g].spent < MaxSpentNext
        /\ gens' = [gens EXCEPT ![g].spent = @ + 1]
        /\ UNCHANGED <<f, paths_tiff, caller, phase, metadata, nwbfile,
                       handles, raised, calls>>

---------------------------------------------------------------------------
(* add_spiking_data *)

\* np.where(spk)[0]: the indices, counted from 0, of the nonzero entries of
\* spk[from..], in increasing order.
RECURSIVE Where(_, _)
Where(spk, from) ==
    IF from > Len(spk)
    THEN <<>>
    ELSE IF spk[from] # 0
         THEN <<from - 1>> \o Where(spk, from + 1)
         ELSE Where(spk, from + 1)

\* The bug of counting sample indices from 1.
SpikeTimesOneBased(spk, dte) ==
    LET idx == Where(spk, 1) IN [j \in 1..Len(idx) |-> (idx[j] + 1) * dte]

\* Line 225.
SpikeTimes(spk, dte) ==
    LET idx == Where(spk, 1) IN [j \in 1..Len(idx) |-> idx[j] * dte]

add_spiking_data ==
    /\ phase = "constructed"
    /\ calls.spiking < MaxCalls
    /\ handles' = WithH5(handles)
    /\ nwbfile' = [nwbfile EXCEPT !.units = Append(@, SpikeTimes(f.spk, f.dte))]
    /\ raised' = "none"
    /\ calls' = [calls EXCEPT !.spiking = @ + 1, !.last = "spiking",
                              !.rated = FALSE]
    /\ UNCHANGED <<f, paths_tiff, caller, phase, metadata, gens>>

---------------------------------------------------------------------------
(* convert2nwb *)

\* Lines 247-255: the processed file is opened and read; no statement of
\* the function closes it.
convert2nwb ==
    /\ calls.convert < MaxCalls
    /\ handles' = handles \cup {Handle("h5", 0, calls.convert + 1)}
    /\ calls' = [calls EXCEPT !.convert = @ + 1, !.last = "convert2nwb",
                              !.rated = FALSE]
    /\ raised' = "none"
    /\ UNCHANGED <<f, paths_tiff, caller, phase, metadata, nwbfile, gens>>

---------------------------------------------------------------------------
(* Specification of construction. *)

InitMeta ==
    /\ f \in { [DefaultFile EXCEPT !.tid = t, !.aid = a] :
                 t \in {3, 12}, a \in {7, 42, 5} }
    /\ caller \in Callers
    /\ paths_tiff = <<>>
    /\ phase = "new"
    /\ metadata = EmptyMap
    /\ nwbfile = EmptyContainer
    /\ handles = {}
    /\ gens = <<>>
    /\ raised = "none"
    /\ calls = NoCalls

NextMeta == Construct

SpecMeta == InitMeta /\ [][NextMeta]_vars

---------------------------------------------------------------------------
(* Specifications of the attach steps, each from the state __init__ leaves. *)

InitConstructed(files, callers, stacks) ==
    /\ f \in files
    /\ caller \in callers
    /\ paths_tiff \in stacks
    /\ phase = "constructed"
    /\ metadata = Constructed(f, caller)
    /\ nwbfile = NewContainer(metadata)
    /\ handles = {}
    /\ gens = <<>>
    /\ raised = "none"
    /\ calls = NoCalls

\* Sample periods: none elapsed between two samples (0), or some ticks.
Periods == 0..MaxPeriod

SeqsUpTo(S, n) == UNION { [1..m -> S] : m \in 0..n }

PlaneNames == {"imaging_plane", "my_plane"}

\* Rates and imaging planes: the three acquisition/processing steps in any
\* order, over every pair of sample periods, for a container with and
\* without an electrode group.
InitAttach ==
    InitConstructed(
        { [DefaultFile EXCEPT !.dte = e, !.dto = o, !.depth = d] :
            e \in Periods, o \in Periods, d \in BOOLEAN },
        { OphysCaller(n) : n \in PlaneNames }
            \cup { WithEcephys(OphysCaller(n)) : n \in PlaneNames },
        { <<1, 2>> })

NextAttach ==
    \/ AddEcephysAcquisition
    \/ add_ophys_processed
    \/ AddOphysAcquisition

SpecAttach == InitAttach /\ [][NextAttach]_vars

\* Pixel masks: every geometry and every list of pixel indices within it.
InitMask ==
    InitConstructed(
        UNION { { [DefaultFile EXCEPT !.linesPerFrame = r, !.pixelsPerLine = c,
                                      !.pixel_list = pl] :
                    pl \in SeqsUpTo(0..(r * c - 1), MaxPixels) } :
                r \in 1..MaxDim, c \in 1..MaxDim },
        { OphysCaller("imaging_plane") },
        { <<>> })

NextMask == add_ophys_processed

SpecMask == InitMask /\ [][NextMask]_vars

\* Image stacks: link mode, embed mode, the consumption of the embedded
\* sequence and convert2nwb, over every list of files.
InitStack ==
    InitConstructed(
        { DefaultFile },
        { OphysCaller("imaging_plane") },
        SeqsUpTo(0..MaxFrames, MaxFiles))

NextStack ==
    \/ AddOphysAcquisition
    \/ TiffOpen
    \/ TiffOpenError
    \/ TiffYield
    \/ TiffReadError
    \/ TiffClose
    \/ TiffExhausted
    \/ TiffAbandon
    \/ TiffSpentNext
    \/ convert2nwb

SpecStack == InitStack /\ [][NextStack]_vars

\* Embed mode alone: the calls that build a sequence and its consumption,
\* over every list of files.
EmbedOphysAcquisition == add_ophys_acquisition(FALSE)

NextEmbed ==
    \/ EmbedOphysAcquisition
    \/ TiffOpen
    \/ TiffOpenError
    \/ TiffYield
    \/ TiffReadError
    \/ TiffClose
    \/ TiffExhausted
    \/ TiffAbandon
    \/ TiffSpentNext

SpecEmbed == InitStack /\ [][NextEmbed]_vars

\* Link mode alone, over longer files.
InitLink ==
    InitConstructed(
        { DefaultFile },
        { OphysCaller("imaging_plane") },
        SeqsUpTo(0..MaxLinkFrames, MaxFiles))

NextLink == AddOphysAcquisition

SpecLink == InitLink /\ [][NextLink]_vars

\* Spike times: every binary spike array and sample period.
InitSpike ==
    InitConstructed(
        { [DefaultFile EXCEPT !.spk = s, !.dte = e] :
            s \in SeqsUpTo({0, 1}, MaxSpk), e \in Periods },
        { NoCaller },
        { <<>> })

NextSpike == add_spiking_data

SpecSpike == InitSpike /\ [][NextSpike]_vars

---------------------------------------------------------------------------
(* Link mode: the starting-frame table. *)

LinkSeries ==
    { nwbfile.acquisition[i] : i \in
        { j \in 1..Len(nwbfile.acquisition) :
            nwbfile.acquisition[j].format = "tiff" } }

OffsetsOf(sf, frames) ==
    /\ Len(sf) = Len(frames)
    /\ sf[1] = 0
    /\ \A i \in 2..Len(frames) : sf[i] = sf[i - 1] + frames[i - 1]

\* C1 as stated: in link mode, for every list of files, the starting-frame
\* table has one entry per file, begins with 0 and each later entry is the
\* previous entry plus the previous file's frame count.
C1_OffsetTableEveryList ==
    \A s \in LinkSeries : OffsetsOf(s.starting_frame, paths_tiff)

\* C1 amended: the table has this shape for every non-empty list of files;
\* for the empty list the table is <<0>>, one entry and no file.
C1_OffsetTableNonEmptyList ==
    \A s \in LinkSeries :
        /\ paths_tiff # <<>> => OffsetsOf(s.starting_frame, paths_tiff)
        /\ paths_tiff = <<>> => s.starting_frame = <<0>>

C1_Witness ==
    /\ paths_tiff = <<3, 4, 2>>
    /\ \E s \in LinkSeries : s.starting_frame = <<0, 3, 7>>

---------------------------------------------------------------------------
(* Pixel masks. *)

\* C2: every pixel mask built by add_ophys_processed has one entry per input
\* pixel index, each with 0 <= row < n_rows and 0 <= col < n_cols.
C2_MaskWithinGeometry ==
    \A m \in 1..Len(nwbfile.rois) :
        LET mask == nwbfile.rois[m] IN
        /\ Len(mask) = Len(f.pixel_list)
        /\ \A i \in 1..Len(mask) :
              /\ 0 <= mask[i].row /\ mask[i].row < f.linesPerFrame
              /\ 0 <= mask[i].col /\ mask[i].col < f.pixelsPerLine

---------------------------------------------------------------------------
(* Metadata resolution. *)

IdentifierClass == {"subject_id", "identifier", "genotype", "age", "indicator"}

\* The fields the converter finds in the processed file or in the registry.
DiscoveredFields == {"identifier", "pharmacology", "subject_id", "genotype", "age"}

\* C3: after construction with a caller mapping, every caller field that is
\* neither identifier-class nor discovered from the source files has the
\* value the caller gave it.
C3_CallerFieldsPassThrough ==
    (phase = "constructed" /\ caller.given) =>
        \A sec \in DOMAIN caller.map : \A k \in DOMAIN caller.map[sec] :
            k \notin IdentifierClass \cup DiscoveredFields =>
                /\ sec \in DOMAIN metadata
                /\ k \in DOMAIN metadata[sec]
                /\ metadata[sec][k] = caller.map[sec][k]

\* C4: for every caller mapping, absent and empty included, construction
\* yields resolved metadata whose subject_id, identifier, genotype and age
\* are the discovered values (for a subject the registry knows).
C4_DiscoveredIdentifiersWin ==
    (phase # "new" /\ Str(f.aid) \in DOMAIN subjects_info) =>
        /\ phase = "constructed"
        /\ metadata["Subject"]["subject_id"] = Str(f.aid)
        /\ metadata["NWBFile"]["identifier"] = Str(f.tid)
        /\ metadata["Subject"]["genotype"] = subjects_info[Str(f.aid)].line
        /\ metadata["Subject"]["age"] = subjects_info[Str(f.aid)].age

---------------------------------------------------------------------------
(* File handles and the embed-mode sequence. *)

\* C5: every handle the converter opened is closed once the operation that
\* opened it is over: whenever no tiff_iterator is inside a file, by normal
\* return, failure or an abandoned iteration, no handle is open.
C5_HandlesClosedOnEveryExit ==
    (\A g \in DOMAIN gens : gens[g].pc \in {"for", "done"}) => handles = {}

\* The image stacks sequence g holds open.
OpenStacks(g) == { h \in handles : h.kind = "tiff" /\ h.owner = g }

\* C6: while an embed-mode sequence is consumed it holds at most one image
\* stack open, and it is the file the iterator is at: every earlier file
\* was closed before this one was opened.
C6_OneStackOpen ==
    \A g \in DOMAIN gens :
        /\ Cardinality(OpenStacks(g)) <= 1
        /\ \A h \in OpenStacks(g) : h.id = gens[g].file

C6_Witness ==
    /\ Len(paths_tiff) = 3
    /\ paths_tiff[2] = 0
    /\ \E g \in DOMAIN gens :
          /\ OpenStacks(g) = {Handle("tiff", 3, g)}
          /\ Len(gens[g].out) >= 2

RECURSIVE FrameTotal(_)
FrameTotal(frames) ==
    IF frames = <<>> THEN 0 ELSE Head(frames) + FrameTotal(Tail(frames))

Before(a, b) == a[1] < b[1] \/ (a[1] = b[1] /\ a[2] < b[2])

\* C7: every sequence yields images of the files only, in path order then
\* stored order and none twice; once the generator is exhausted it has
\* yielded as many images as the files hold, also after further next()
\* calls on it.
C7_EveryFrameOnceInOrder ==
    \A g \in DOMAIN gens :
        LET out == gens[g].out IN
        /\ \A i \in 1..Len(out) :
              /\ out[i][1] \in 1..Len(paths_tiff)
              /\ out[i][2] \in 1..paths_tiff[out[i][1]]
        /\ \A i \in 1..(Len(out) - 1) : Before(out[i], out[i + 1])
        /\ gens[g].end = "exhausted" => Len(out) = FrameTotal(paths_tiff)

C7_Witness ==
    /\ Len(paths_tiff) >= 2
    /\ \E g \in DOMAIN gens :
          /\ gens[g].end = "exhausted"
          /\ gens[g].spent >= 1
          /\ Len(gens[g].out) >= 3

---------------------------------------------------------------------------
(* Spike times. *)

NonzeroUpTo(spk, i) == { j \in 1..i : spk[j] # 0 }

\* C8: every unit add_spiking_data attaches holds one time per nonzero entry
\* of the spike array, in index order, equal to index x period (indices
\* counted from 0), and nothing for a zero entry.
C8_SpikeTimes ==
    \A u \in 1..Len(nwbfile.units) :
        LET times == nwbfile.units[u] IN
        /\ Len(times) = Cardinality(NonzeroUpTo(f.spk, Len(f.spk)))
        /\ \A i \in 1..Len(f.spk) :
              f.spk[i] # 0 =>
                  times[Cardinality(NonzeroUpTo(f.spk, i))] = (i - 1) * f.dte

C8_Witness ==
    /\ f.spk = <<0, 0, 1, 0, 1>>
    /\ f.dte = 2
    /\ Len(nwbfile.units) >= 1
    /\ nwbfile.units[1] = <<4, 8>>

---------------------------------------------------------------------------
(* Rates and imaging planes. *)

SeriesOfKind(kind) ==
    { nwbfile.acquisition[i] : i \in
        { j \in 1..Len(nwbfile.acquisition) :
            nwbfile.acquisition[j].kind = kind } }

\* C9: a call that resolves a rate from a period <= 0 fails with
\* InvalidRate, nothing that carries a rate derived from such a period is
\* attached, and a period p > 0 gives the rate 1/p.
C9_InvalidRateRejected ==
    /\ (calls.rated /\ calls.last = "ecephys" /\ f.dte <= 0) =>
           raised = "InvalidRate"
    /\ (calls.rated /\ calls.last \in {"processed", "acquisition"}
          /\ f.dto <= 0) => raised = "InvalidRate"
    /\ f.dte <= 0 => SeriesOfKind("ElectricalSeries") = {}
    /\ f.dto <= 0 =>
           /\ SeriesOfKind("TwoPhotonSeries") = {}
           /\ nwbfile.imaging_planes = {}
           /\ nwbfile.roi_series = <<>>
    /\ \A s \in SeriesOfKind("ElectricalSeries") :
           f.dte > 0 => s.rate = [num |-> 1, den |-> f.dte]
    /\ \A s \in SeriesOfKind("TwoPhotonSeries") :
           f.dto > 0 => s.rate = [num |-> 1, den |-> f.dto]

\* C10: whatever imaging-plane name the metadata configures, once
\* _get_imaging_plane has been called the container holds exactly one
\* imaging plane, and only the first call attempted to create one.
C10_OnePlaneCreatedOnce ==
    calls.get_plane >= 1 =>
        /\ Cardinality(nwbfile.imaging_planes) = 1
        /\ calls.create_plane = 1

=============================================================================
